---- MODULE Spec2Model ----
(***************************************************************************)
(* smolblog: a manifest-driven site renderer.                              *)
(*                                                                         *)
(*   - the serving handler (handler.ServeHTTP, loadManifest,               *)
(*     templateFuncs) in its two revisions: with static routes             *)
(*     (rev = "static") and without them (rev = "plain");                  *)
(*   - the static export (realMain / createIndex / parseLayouts of         *)
(*     main.go);                                                           *)
(*   - the path resolution performed at every place a file named by the    *)
(*     manifest or by a template is opened.                                *)
(*                                                                         *)
(* Three specifications: Spec (requests served one after another while     *)
(* the site's files are edited), SpecExport (one run of the static         *)
(* export), SpecPaths (each place that resolves a path, applied to a       *)
(* manifest path and a path).                                              *)
(*                                                                         *)
(* Byte strings are sequences of string tokens (TLA+ has no string         *)
(* concatenation).  A file path is a sequence of segments; an absolute     *)
(* path starts with the segment "/".                                       *)
(***************************************************************************)
EXTENDS Integers, Sequences, FiniteSets, TLC

VARIABLES
    files,      \* the disk: path -> file content record
    h,          \* the handler struct: manifestPath, manifestDir
    rev,        \* which revision of the handler serves: "static" or "plain"
    cur,        \* the request just served and its response (cleared by an edit)
    prev,       \* the request served just before cur when it asked for the same
                \* path, no edit in between
    pc,         \* static export: position of realMain / main
    man,        \* static export: the decoded manifest
    tpls,       \* static export: the parsed template set
    todo,       \* static export: pages the range loop has not visited yet
    args,       \* static export: the executionArgs of the current iteration
    passed,     \* static export: the last call of tpls.ExecuteTemplate
    visited,    \* static export: page names in the order the loop visited them
    failed,     \* static export: the page whose processing failed ("" if none)
    out,        \* static export: the output tree, path -> bytes
    ret,        \* static export: realMain's return value (Nil or the error)
    exitCode,   \* static export: the process exit code (-1 while running)
    rManPath,   \* path resolution: the manifest path given
    rPath,      \* path resolution: the path taken from manifest or template
    rSite,      \* path resolution: the place in the code that resolved it
    rResolved,  \* path resolution: the path that place opens
    output,     \* serving realMain: the -output flag ("" when not given)
    mpc,        \* serving realMain: position of the main goroutine
    wpc,        \* serving realMain: position of the goroutine awaiting ctx.Done
    spc,        \* serving realMain: position of the goroutine running the server
    ctxDone,    \* serving realMain: ctx is cancelled (ctx.Done() is closed)
    interrupted,\* serving realMain: the interrupt signal has arrived
    srvClosed,  \* serving realMain: s.Close() has been called
    listener,   \* serving realMain: "none", "listening" or "closed"
    crawler,    \* serving realMain: wget: "idle", "running", "ok" or "failed"
    mret,       \* serving realMain: the return value (Nil or the error)
    mexit       \* serving realMain: the process exit code (-1 while running)

serveVars == <<h, rev, cur, prev>>
exportVars ==
    <<pc, man, tpls, todo, args, passed, visited, failed, out, ret, exitCode>>
pathVars == <<rManPath, rPath, rSite, rResolved>>
mainVars == <<output, mpc, wpc, spc, ctxDone, interrupted, srvClosed, listener,
              crawler, mret, mexit>>
vars == <<files, h, rev, cur, prev, pc, man, tpls, todo, args, passed, visited,
          failed, out, ret, exitCode, rManPath, rPath, rSite, rResolved,
          output, mpc, wpc, spc, ctxDone, interrupted, srvClosed, listener,
          crawler, mret, mexit>>

----------------------------------------------------------------------------
(* path/filepath *)

IsAbs(p) == Len(p) > 0 /\ p[1] = "/"

RECURSIVE CleanSegs(_, _, _)
\* lexical processing of filepath.Clean: drop ".", let ".." eat the segment
\* before it (at a root ".." is dropped; at the start of a relative path it
\* is kept)
CleanSegs(rooted, segs, acc) ==
    IF segs = <<>> THEN acc
    ELSE LET s == Head(segs)
             rest == Tail(segs)
         IN  IF s = "." \/ s = "/" THEN CleanSegs(rooted, rest, acc)
             ELSE IF s = ".."
                  THEN IF acc # <<>> /\ acc[Len(acc)] # ".."
                       THEN CleanSegs(rooted, rest, SubSeq(acc, 1, Len(acc) - 1))
                       ELSE IF rooted THEN CleanSegs(rooted, rest, acc)
                            ELSE CleanSegs(rooted, rest, Append(acc, ".."))
                  ELSE CleanSegs(rooted, rest, Append(acc, s))

Clean(p) ==
    LET body == CleanSegs(IsAbs(p), p, <<>>)
    IN  IF IsAbs(p) THEN <<"/">> \o body
        ELSE IF body = <<>> THEN <<".">> ELSE body

\* filepath.Join(a, b): the non-empty elements joined by a separator, then
\* cleaned; a separator that starts b is just one more separator
Join(a, b) ==
    IF a = <<>> /\ b = <<>> THEN <<>>
    ELSE IF a = <<>> THEN Clean(b)
    ELSE Clean(a \o b)

Dir(p) ==
    IF Len(p) = 0 THEN <<".">>
    ELSE IF p = <<"/">> THEN p
    ELSE Clean(SubSeq(p, 1, Len(p) - 1))

Base(p) == IF Len(p) = 0 THEN "." ELSE p[Len(p)]

----------------------------------------------------------------------------
(* the disk, encoding/json, goldmark, html/template *)

Nil == <<>>     \* a nil error; an error is its text, a sequence of tokens

Missing == [kind |-> "missing"]

\* os.ReadFile / os.Open
ReadFile(fs, p) ==
    IF p \in DOMAIN fs /\ fs[p].kind # "missing"
    THEN [err |-> Nil, data |-> fs[p]]
    ELSE [err |-> <<"open: no such file or directory">>, data |-> Missing]

\* json.Unmarshal / json.Decoder.Decode into a manifest struct: only a file
\* holding JSON decodes
Unmarshal(data) ==
    IF data.kind = "json" THEN [err |-> Nil, man |-> data.man]
    ELSE [err |-> <<"invalid character">>, man |-> Missing]

\* goldmark.Convert, an opaque converter: a heading becomes <h1>, anything
\* else a paragraph; the converter reports an error for the input it rejects
ConvertFails(bytes) == bytes = <<"\\unconvertible">>

ConvertToken(t) ==
    IF t = "# Hi" THEN <<"<h1>", "Hi", "</h1>\n">> ELSE <<"<p>", t, "</p>\n">>

RECURSIVE Convert(_)
Convert(bytes) ==
    IF bytes = <<>> THEN <<>>
    ELSE ConvertToken(Head(bytes)) \o Convert(Tail(bytes))

\* html/template escapes a string value printed in element content
EscapeString(s) == IF s = "a<b" THEN "a&lt;b" ELSE s

RECURSIVE parseFiles(_, _, _, _)
\* template.ParseFiles: every file must exist and parse, with the functions
\* it calls defined; each file adds its {{define}}d templates and one named
\* by its base name; no file at all is an error
parseFiles(paths, fs, funcs, acc) ==
    IF paths = <<>> THEN [err |-> Nil, defs |-> acc]
    ELSE LET rd == ReadFile(fs, Head(paths))
         IN  IF rd.err # Nil THEN [err |-> rd.err, defs |-> acc]
             ELSE IF rd.data.kind # "layout"
                  THEN [err |-> <<"template: unexpected token">>, defs |-> acc]
             ELSE IF ~(rd.data.uses \subseteq funcs)
                  THEN [err |-> <<"template: function not defined">>, defs |-> acc]
             ELSE parseFiles(Tail(paths), fs, funcs,
                             (Base(Head(paths)) :> rd.data.top) @@ rd.data.defs @@ acc)

ParseFiles(paths, fs, funcs) ==
    IF paths = <<>>
    THEN [err |-> <<"html/template: no files named in call to ParseFiles">>,
          defs |-> <<>>]
    ELSE parseFiles(paths, fs, funcs, <<>>)

----------------------------------------------------------------------------
(* template execution *)

\* the closure templateFuncs registers as "renderMarkdown": it panics on a
\* read or conversion failure; text/template recovers a panic of a called
\* function and makes it the error of the execution
renderMarkdownPath(manifestDir, src) == Join(manifestDir, src)

renderMarkdown(manifestDir, fs, src) ==
    LET rd == ReadFile(fs, renderMarkdownPath(manifestDir, src))
    IN  IF rd.err # Nil
        THEN [err |-> <<"error opening file to parse markdown: ">> \o rd.err,
              val |-> <<>>]
        ELSE IF ConvertFails(rd.data.bytes)
        THEN [err |-> <<"error converting markdown: ">>, val |-> <<>>]
        ELSE [err |-> Nil, val |-> Convert(rd.data.bytes)]

\* one node of a template: literal text, a field of the data, a key of the
\* data's Args, or a call of renderMarkdown
EvalNode(n, data, manifestDir, fs) ==
    CASE n.op = "text" -> [err |-> Nil, val |-> <<n.v>>]
      [] n.op = "Path" ->
            IF "Path" \in DOMAIN data
            THEN [err |-> Nil, val |-> <<EscapeString(data.Path)>>]
            ELSE [err |-> <<"can't evaluate field Path">>, val |-> <<>>]
      [] n.op = "RenderedMarkdown" ->
            IF "RenderedMarkdown" \in DOMAIN data
            THEN [err |-> Nil, val |-> data.RenderedMarkdown]
            ELSE [err |-> <<"can't evaluate field RenderedMarkdown">>, val |-> <<>>]
      [] n.op = "Args" ->
            IF n.v \in DOMAIN data.Args
            THEN [err |-> Nil, val |-> <<EscapeString(data.Args[n.v])>>]
            ELSE [err |-> Nil, val |-> <<>>]
      [] n.op = "renderMarkdown" -> renderMarkdown(manifestDir, fs, n.src)

RECURSIVE ExecNodes(_, _, _, _, _)
\* the nodes are executed in order, each writing to the sink as it goes: what
\* was written before a failing node stays written
ExecNodes(nodes, data, manifestDir, fs, w) ==
    IF nodes = <<>> THEN [err |-> Nil, w |-> w]
    ELSE LET r == EvalNode(Head(nodes), data, manifestDir, fs)
         IN  IF r.err # Nil THEN [err |-> r.err, w |-> w]
             ELSE ExecNodes(Tail(nodes), data, manifestDir, fs, w \o r.val)

\* (*template.Template).ExecuteTemplate: an undefined name fails before
\* anything is written
ExecuteTemplate(defs, name, data, manifestDir, fs) ==
    IF name \notin DOMAIN defs
    THEN [err |-> <<"html/template: ", name, " is undefined">>, w |-> <<>>]
    ELSE ExecNodes(defs[name], data, manifestDir, fs, <<>>)

Text(v) == [op |-> "text", v |-> v, src |-> <<>>]
Field(f) == [op |-> f, v |-> "", src |-> <<>>]
Arg(k) == [op |-> "Args", v |-> k, src |-> <<>>]
CallRenderMarkdown(src) == [op |-> "renderMarkdown", v |-> "", src |-> src]

----------------------------------------------------------------------------
(* net/http: the response writer as the handler sees it *)

StatusOK == 200
StatusNotFound == 404
StatusMethodNotAllowed == 405
StatusInternalServerError == 500

\* status 0: the header has not been written yet
NewResponseWriter == [status |-> 0, ctype |-> "", body |-> <<>>]

\* a second WriteHeader is superfluous: the first status stays
WriteHeader(w, code) == IF w.status = 0 THEN [w EXCEPT !.status = code] ELSE w

\* the first Write commits status 200 when no header was written before
Write(w, bytes) == [WriteHeader(w, StatusOK) EXCEPT !.body = @ \o bytes]

\* w.Header().Add("Content-Type", ..): no effect once the header was written
AddContentType(w, ct) == IF w.status = 0 THEN [w EXCEPT !.ctype = ct] ELSE w

\* http.Error: plain-text content type, the status, then Fprintln of the text
httpError(w, msg, code) ==
    Write(WriteHeader(AddContentType(w, "text/plain; charset=utf-8"), code),
          msg \o <<"\n">>)

\* the handler returned: a header still unwritten goes out as 200
Finish(w) == WriteHeader(w, StatusOK)

----------------------------------------------------------------------------
(* the site served: its files and what an editor may put in them *)

SiteManifest == <<"/", "site", "m.json">>
SiteLayout == <<"/", "site", "l.tmpl">>
SiteAsset == <<"/", "site", "style.css">>
SitePost == <<"/", "site", "post.md">>

Route(static, ctype, template, title) ==
    [static_path |-> static, content_type |-> ctype, template |-> template,
     args |-> ("title" :> title)]

ManifestA ==
    [layouts |-> << <<"l.tmpl">> >>,
     routes |->
        ("/" :> Route(<<>>, "", "index", "Hi")) @@
        ("/style.css" :> Route(<<"style.css">>, "text/css", "", "")) @@
        ("/raw" :> Route(<<"style.css">>, "", "index", "a<b")) @@
        ("/post" :> Route(<<>>, "", "article", "Post")) @@
        ("/md" :> Route(<<>>, "", "mdonly", "Md")) @@
        ("/nope" :> Route(<<>>, "", "undefined", "Nope"))]

ManifestB ==
    [layouts |-> << <<"l.tmpl">> >>,
     routes |->
        ("/" :> Route(<<>>, "", "index", "a<b")) @@
        ("/zzz" :> Route(<<>>, "", "index", "New"))]

Json(m, name) == [kind |-> "json", bytes |-> <<name>>, man |-> m]
Garbage == [kind |-> "garbage", bytes |-> <<"{{">>]
Bytes(b) == [kind |-> "bytes", bytes |-> b]

LayoutA ==
    [kind |-> "layout", bytes |-> <<"layoutA">>, uses |-> {"renderMarkdown"},
     top |-> <<>>,
     defs |->
        ("index" :> <<Text("<h1>"), Arg("title"), Text("</h1>")>>) @@
        ("article" :> <<Text("<main>"), CallRenderMarkdown(<<"post.md">>),
                        Text("</main>")>>) @@
        ("mdonly" :> <<CallRenderMarkdown(<<"post.md">>)>>)]

LayoutB ==
    [kind |-> "layout", bytes |-> <<"layoutB">>, uses |-> {},
     top |-> <<>>,
     defs |-> ("index" :> <<Text("<h2>"), Field("Path"), Text("</h2>")>>)]

MdHi == Bytes(<<"# Hi">>)
MdBad == Bytes(<<"\\unconvertible">>)

SiteContents ==
    (SiteManifest :> {Missing, Garbage, Json(ManifestA, "A"), Json(ManifestB, "B")}) @@
    (SiteLayout :> {Missing, Garbage, LayoutA, LayoutB}) @@
    (SiteAsset :> {Missing, Bytes(<<"body{}">>), Bytes(<<"p{}", "a{}">>)}) @@
    (SitePost :> {Missing, MdHi, MdBad})

SiteFiles ==
    (SiteManifest :> Json(ManifestA, "A")) @@ (SiteLayout :> LayoutA) @@
    (SiteAsset :> Bytes(<<"body{}">>)) @@ (SitePost :> MdHi)

Methods == {"GET", "POST"}
UrlPaths == {"/", "/style.css", "/raw", "/post", "/md", "/nope", "/zzz"}
Queries == {"", "x=1"}
Requests ==
    [method : Methods, url : [path : UrlPaths, query : Queries]]

NoRequest == [valid |-> FALSE]

----------------------------------------------------------------------------
(* the serving handler *)

newHandler(manPath) == [manifestPath |-> manPath, manifestDir |-> Dir(manPath)]

\* the fields the revision's Route struct declares; a JSON key without a
\* field is ignored by the decoder
RouteFields(rv, r) ==
    IF rv = "static" THEN r
    ELSE [r EXCEPT !.static_path = <<>>, !.content_type = ""]

layoutPathServe(manifestDir, l) == Join(manifestDir, l)

staticPathServe(manifestDir, sPath) == Join(manifestDir, sPath)

serveLayoutPaths(manifestDir, layouts) ==
    [i \in 1..Len(layouts) |-> layoutPathServe(manifestDir, layouts[i])]

loadManifest(rv, manifestPath, manifestDir, fs) ==
    LET rd == ReadFile(fs, manifestPath)
        js == Unmarshal(rd.data)
        ps == ParseFiles(serveLayoutPaths(manifestDir, js.man.layouts), fs,
                         {"renderMarkdown"})
    IN  IF rd.err # Nil
        THEN [err |-> <<"error reading manfiest: ">> \o rd.err]
        ELSE IF js.err # Nil
        THEN [err |-> <<"error unmarshaling manifest: ">> \o js.err]
        ELSE IF ps.err # Nil
        THEN [err |-> <<"error parsing layouts: ">> \o ps.err]
        ELSE [err |-> Nil,
              routes |-> [k \in DOMAIN js.man.routes |->
                              RouteFields(rv, js.man.routes[k])],
              tpls |-> ps.defs]

\* faulty variant: the method check lets every method through
MethodAllowedAny(method) == TRUE

MethodAllowed(method) == method = "GET"

\* faulty variant: the manifest and templates loaded when the server started are
\* kept and used for every request
reloadManifestOnce(rv, hh, fs) ==
    loadManifest(rv, hh.manifestPath, hh.manifestDir, SiteFiles)

\* "The manifest is loaded each request": from the files as they are now
reloadManifest(rv, hh, fs) ==
    loadManifest(rv, hh.manifestPath, hh.manifestDir, fs)

\* faulty variant: the key is the request URI, query string included
RouteKeyRequestURI(url) == IF url.query = "" THEN url.path ELSE "?"

\* r.URL.Path: the path of the parsed URL, without query string or fragment
RouteKey(url) == url.path

\* faulty variant: a route that names a template is rendered as a template
IsStaticRouteUnlessTemplate(route) ==
    route.static_path # <<>> /\ route.template = ""

IsStaticRoute(route) == route.static_path # <<>>

methodNotAllowed(rv, w) ==
    IF rv = "static"
    THEN httpError(w, <<"method not allowed">>, StatusMethodNotAllowed)
    ELSE WriteHeader(w, StatusMethodNotAllowed)

routeNotFound(rv, w) ==
    IF rv = "static"
    THEN httpError(w, <<"route not found">>, StatusNotFound)
    ELSE WriteHeader(w, StatusNotFound)

loadFailed(w, err) == httpError(w, err, StatusInternalServerError)

\* faulty variant: a static file that cannot be read is reported as not found
staticReadFailedNotFound(w, err) == httpError(w, err, StatusNotFound)

staticReadFailed(w, err) == httpError(w, err, StatusInternalServerError)

\* the Write is to a live connection; its error branch is for a client that
\* has gone, to whom there is no response
serveStatic(w, route, data) ==
    Write(IF route.content_type # "" THEN AddContentType(w, route.content_type)
          ELSE w,
          data.bytes)

\* the template writes to w as it executes; an error after the first write
\* finds the header written, so WriteHeader(500) changes nothing
serveTemplate(w, ex) ==
    LET written == IF ex.w # <<>> THEN Write(w, ex.w) ELSE w
    IN  IF ex.err # Nil THEN WriteHeader(written, StatusInternalServerError)
        ELSE written

\* did: the steps the handler took for the request
ServeHTTP(hh, rv, req, fs) ==
    LET w == NewResponseWriter
        l == reloadManifest(rv, hh, fs)
        path == RouteKey(req.url)
        route == l.routes[path]
        f == ReadFile(fs, staticPathServe(hh.manifestDir, route.static_path))
        ex == ExecuteTemplate(l.tpls, route.template,
                              [Path |-> path, Args |-> route.args],
                              hh.manifestDir, fs)
    IN  IF ~MethodAllowed(req.method)
        THEN [w |-> Finish(methodNotAllowed(rv, w)), did |-> {}]
        ELSE IF l.err # Nil
        THEN [w |-> Finish(loadFailed(w, l.err)), did |-> {"loadManifest"}]
        ELSE IF path \notin DOMAIN l.routes
        THEN [w |-> Finish(routeNotFound(rv, w)),
              did |-> {"loadManifest", "lookup"}]
        ELSE IF IsStaticRoute(route)
        THEN IF f.err # Nil
             THEN [w |-> Finish(staticReadFailed(w, f.err)),
                   did |-> {"loadManifest", "lookup", "ReadFile"}]
             ELSE [w |-> Finish(serveStatic(w, route, f.data)),
                   did |-> {"loadManifest", "lookup", "ReadFile"}]
        ELSE [w |-> Finish(serveTemplate(w, ex)),
              did |-> {"loadManifest", "lookup", "ExecuteTemplate"}]

---------------------------------------------------------------------------------------------------------------------------------------------------
(* the static export: realMain, createIndex, parseLayouts of main.go *)

\* parseLayouts: "If it's an abolute path, don't use the manifest directory"
layoutPathExport(manifestDir, path) ==
    IF IsAbs(path) THEN path ELSE Join(manifestDir, path)

\* the Markdown file of a page
markdownPathExport(manDir, path) ==
    IF ~IsAbs(path) THEN Join(manDir, path) ELSE path

parseLayouts(manifestPath, layoutPaths, fs) ==
    LET manifestDir == Dir(manifestPath)
        paths == [i \in 1..Len(layoutPaths) |->
                     layoutPathExport(manifestDir, layoutPaths[i])]
        ps == ParseFiles(paths, fs, {})
    IN  IF ps.err # Nil
        THEN [err |-> <<"error parsing layouts: ">> \o ps.err, defs |-> <<>>]
        ELSE ps

IsPrefix(a, b) == Len(a) <= Len(b) /\ SubSeq(b, 1, Len(a)) = a

\* createIndex: os.MkdirAll of the directory fails when a regular file is in
\* the way; os.Create fails when the path is a directory, and otherwise
\* leaves the file empty
createIndex(p, o) ==
    IF \E q \in DOMAIN o : IsPrefix(q, Dir(p))
    THEN [err |-> <<"mkdir: not a directory">>, out |-> o]
    ELSE IF \E q \in DOMAIN o : q # p /\ IsPrefix(p, q)
    THEN [err |-> <<"open: is a directory">>, out |-> o]
    ELSE [err |-> Nil, out |-> (p :> <<>>) @@ o]

indexPath(outDir, page) == Join(Join(outDir, page.path), <<"index.html">>)

\* faulty variant: one executionArgs value is reused for every page of the loop
executionArgsReused(page) ==
    [RenderedMarkdown |-> args.RenderedMarkdown, Args |-> page.args]

\* args := executionArgs{Args: page.Args}
executionArgs(page) == [RenderedMarkdown |-> <<>>, Args |-> page.args]

\* faulty variant: the template executed is the one the page's layout names
templateNameLayout(page) == page.layout

\* tpls.ExecuteTemplate(f, "post", args): the name is a literal
templateName(page) == "post"

\* one iteration of "for name, page := range man.Pages"
renderPage(name, page, manDir, outDir, defs, fs, o) ==
    LET a0 == executionArgs(page)
        hasMd == page.markdown.path # <<>>
        rd == ReadFile(fs, markdownPathExport(manDir, page.markdown.path))
        a == IF hasMd
             THEN [a0 EXCEPT !.RenderedMarkdown = Convert(rd.data.bytes)]
             ELSE a0
        idx == indexPath(outDir, page)
        ci == createIndex(idx, o)
        tn == templateName(page)
        ex == ExecuteTemplate(defs, tn, a, manDir, fs)
    IN  IF hasMd /\ rd.err # Nil
        THEN [err |-> <<"error opening markdown for '", name, "': ">> \o rd.err,
              out |-> o, args |-> a0, called |-> FALSE]
        ELSE IF hasMd /\ ConvertFails(rd.data.bytes)
        THEN [err |-> <<"error converting markdown for '", name, "': ">>,
              out |-> o, args |-> a0, called |-> FALSE]
        ELSE IF ci.err # Nil
        THEN [err |-> <<"error creating index.html for page '", name, "': ">>
                          \o ci.err,
              out |-> o, args |-> a, called |-> FALSE]
        ELSE IF ex.err # Nil
        THEN [err |-> <<"error executing template for page '", name, "': ">>
                          \o ex.err,
              out |-> (idx :> ex.w) @@ ci.out, args |-> a, called |-> TRUE,
              template |-> tn]
        ELSE [err |-> Nil,
              out |-> (idx :> ex.w) @@ ci.out, args |-> a, called |-> TRUE,
              template |-> tn]

\* faulty variant: the loop goes on to the next page after a failure
pageAbortsNever(err) == FALSE

\* "return fmt.Errorf(..)" inside the loop: an error ends realMain
pageAborts(err) == err # Nil

-----
(* idle values of the parts a specification does not run *)

ServeIdle ==
    /\ h = newHandler(SiteManifest)
    /\ rev = "static"
    /\ cur = NoRequest
    /\ prev = NoRequest

ExportIdle ==
    /\ pc = "idle"
    /\ man = Missing
    /\ tpls = <<>>
    /\ todo = {}
    /\ args = [RenderedMarkdown |-> <<>>, Args |-> <<>>]
    /\ passed = [called |-> FALSE]
    /\ visited = <<>>
    /\ failed = ""
    /\ out = <<>>
    /\ ret = Nil
    /\ exitCode = -1

PathsIdle ==
    /\ rManPath = <<>>
    /\ rPath = <<>>
    /\ rSite = "none"
    /\ rResolved = <<>>

MainIdle ==
    /\ output = ""
    /\ mpc = "idle"
    /\ wpc = "unborn"
    /\ spc = "unborn"
    /\ ctxDone = FALSE
    /\ interrupted = FALSE
    /\ srvClosed = FALSE
    /\ listener = "none"
    /\ crawler = "idle"
    /\ mret = <<>>
    /\ mexit = -1

----------------------------------------------------------------------------
(* serving: requests arrive one after another, files are edited in between *)

Init ==
    /\ files = SiteFiles
    /\ h = newHandler(SiteManifest)
    /\ rev \in {"static", "plain"}
    /\ cur = NoRequest
    /\ prev = NoRequest
    /\ ExportIdle
    /\ PathsIdle
    /\ MainIdle

\* the server calls ServeHTTP for a request
Serve(req) ==
    /\ cur' = [valid |-> TRUE, req |-> req, resp |-> ServeHTTP(h, rev, req, files)]
    /\ prev' = IF cur.valid /\ cur.req.url.path = req.url.path THEN cur
               ELSE NoRequest
    /\ UNCHANGED <<files, h, rev, exportVars, pathVars, mainVars>>

\* somebody edits, removes or restores a file of the site; the responses
\* recorded were about the files as they were
EditFile(p, c) ==
    /\ files[p] # c
    /\ files' = [files EXCEPT ![p] = c]
    /\ cur' = NoRequest
    /\ prev' = NoRequest
    /\ UNCHANGED <<h, rev, exportVars, pathVars, mainVars>>

Next ==
    \/ \E req \in Requests : Serve(req)
    \/ \E p \in DOMAIN SiteContents : \E c \in SiteContents[p] : EditFile(p, c)

Spec == Init /\ [][Next]_vars

----------------------------------------------------------------------------
(* what the claims about the serving handler speak of *)

Served == cur.valid
IsGet == cur.req.method = "GET"
ReqPath == cur.req.url.path
Status == cur.resp.w.status
Body == cur.resp.w.body
Did == cur.resp.did

ManifestDecodes == files[SiteManifest].kind = "json"
LayoutsParse == files[SiteLayout].kind = "layout"
Routes == files[SiteManifest].man.routes
AssetReadable == files[SiteAsset].kind # "missing"

\* the request hit a route that names a static file (the handler with
\* static routes only: the other revision has no such field)
HitStatic ==
    /\ rev = "static"
    /\ ManifestDecodes /\ LayoutsParse
    /\ ReqPath \in DOMAIN Routes
    /\ Routes[ReqPath].static_path # <<>>

\* C1: a request whose method is not GET is answered 405 whatever its path
\* and whatever the files hold; the handler neither loads the manifest, nor
\* looks a route up, nor reads a file, nor executes a template for it.
C1_NonGetRejected ==
    (Served /\ ~IsGet) => (Status = StatusMethodNotAllowed /\ Did = {})

C1_Witness ==
    /\ Served /\ cur.req.method = "POST" /\ ReqPath = "/style.css"
    /\ files[SiteManifest] = Missing
    /\ Status = StatusMethodNotAllowed

\* C2, as claimed: a GET whose path is no key of the manifest's routes is
\* answered 404, and no template is executed for it.
C2_UnknownPathIs404 ==
    (Served /\ IsGet /\ ManifestDecodes /\ ReqPath \notin DOMAIN Routes)
        => (Status = StatusNotFound /\ "ExecuteTemplate" \notin Did)

\* C2, amended: when the manifest decodes and its layouts parse, a GET is
\* answered 404 exactly when its URL path (the query string is no part of it)
\* is no key of routes, and then no template is executed; when the layouts do
\* not parse the answer is 500 and no template is executed either.
C2_UnknownPathIs404WhenLoaded ==
    (Served /\ IsGet /\ ManifestDecodes) =>
        /\ (LayoutsParse /\ ReqPath \notin DOMAIN Routes)
              => (Status = StatusNotFound /\ "ExecuteTemplate" \notin Did)
        /\ (LayoutsParse /\ ReqPath \in DOMAIN Routes) => Status # StatusNotFound
        /\ ~LayoutsParse
              => (Status = StatusInternalServerError /\ "ExecuteTemplate" \notin Did)

C2_Witness ==
    /\ Served /\ IsGet /\ ReqPath = "/zzz" /\ cur.req.url.query = "x=1"
    /\ ManifestDecodes /\ LayoutsParse /\ ReqPath \notin DOMAIN Routes
    /\ Status = StatusNotFound

\* C3: a GET that hits a route with a static_path whose file is readable is
\* answered with exactly the file's bytes, with the route's content_type as
\* Content-Type when that is not empty, and without executing a template,
\* also when the route names a template and args.
C3_StaticServedVerbatim ==
    (Served /\ IsGet /\ HitStatic /\ AssetReadable) =>
        /\ Status = StatusOK
        /\ Body = files[SiteAsset].bytes
        /\ Routes[ReqPath].content_type # ""
              => cur.resp.w.ctype = Routes[ReqPath].content_type
        /\ "ExecuteTemplate" \notin Did

C3_Witness ==
    /\ Served /\ IsGet /\ HitStatic /\ AssetReadable
    /\ Routes[ReqPath].template # ""
    /\ Body = <<"p{}", "a{}">>

\* a failure to read or decode the manifest, to parse a layout, or to read
\* the static file of the route hit
InternalFailure ==
    \/ ~ManifestDecodes
    \/ ~LayoutsParse
    \/ HitStatic /\ ~AssetReadable

NoSuchFile == <<"open: no such file or directory">>

ErrorText ==
    IF files[SiteManifest] = Missing
    THEN <<"error reading manfiest: ">> \o NoSuchFile
    ELSE IF ~ManifestDecodes
    THEN <<"error unmarshaling manifest: ", "invalid character">>
    ELSE IF files[SiteLayout] = Missing
    THEN <<"error parsing layouts: ">> \o NoSuchFile
    ELSE IF ~LayoutsParse
    THEN <<"error parsing layouts: ", "template: unexpected token">>
    ELSE NoSuchFile

\* C4, as claimed: on a GET every such failure is answered 500 with the error
\* text as the body and no other byte.
C4_InternalFailureIs500 ==
    (Served /\ IsGet /\ InternalFailure)
        => (Status = StatusInternalServerError /\ Body = ErrorText)

\* C4, amended: on a GET every such failure is answered 500, for a path in
\* routes or not, and a missing static file is never answered 404; the body
\* is the error text followed by a line feed, and nothing else.
C4_InternalFailureIs500Line ==
    (Served /\ IsGet /\ InternalFailure)
        => (Status = StatusInternalServerError /\ Body = ErrorText \o <<"\n">>)

C4_Witness ==
    /\ Served /\ IsGet /\ HitStatic /\ ~AssetReadable
    /\ Status = StatusInternalServerError
    /\ Body = NoSuchFile \o <<"\n">>

\* the template of the route hit failed to execute
TemplateFailed ==
    /\ ManifestDecodes /\ LayoutsParse
    /\ ReqPath \in DOMAIN Routes
    /\ ~HitStatic
    /\ ExecuteTemplate(ParseFiles(<<SiteLayout>>, files, {"renderMarkdown"}).defs,
                       Routes[ReqPath].template,
                       [Path |-> ReqPath, Args |-> Routes[ReqPath].args],
                       h.manifestDir, files).err # Nil

Failed ==
    \/ ~IsGet
    \/ InternalFailure
    \/ ManifestDecodes /\ LayoutsParse /\ ReqPath \notin DOMAIN Routes
    \/ TemplateFailed

\* C5: every request that fails, in whatever category, is answered with an
\* error status (4xx or 5xx): no failing request ends with a success status.
C5_FailureIsErrorStatus ==
    (Served /\ Failed) => Status >= 400

\* C7: the handler keeps nothing between requests.  Two requests in a row for
\* the same path and method, with no file changed in between, get the same
\* status, headers and body, whatever their query strings; and every answer
\* is about the files as they are at the time of the request: a manifest or
\* layout broken since the start is answered 500, a route added or removed is
\* found or not found, and the page is rendered by the layout now on disk.
C7_Stateless ==
    /\ h = newHandler(SiteManifest)
    /\ (Served /\ prev.valid /\ prev.req.method = cur.req.method)
          => prev.resp.w = cur.resp.w
    /\ (Served /\ IsGet) =>
          /\ (~ManifestDecodes \/ ~LayoutsParse) => Status = StatusInternalServerError
          /\ (ManifestDecodes /\ LayoutsParse)
                => (Status = StatusNotFound <=> ReqPath \notin DOMAIN Routes)
          /\ (ManifestDecodes /\ LayoutsParse /\ ReqPath = "/")
                => Body = IF files[SiteLayout] = LayoutB
                          THEN <<"<h2>", "/", "</h2>">>
                          ELSE <<"<h1>", EscapeString(Routes["/"].args.title), "</h1>">>

C7_Witness ==
    /\ Served /\ IsGet /\ prev.valid /\ prev.req.method = "GET"
    /\ prev.req # cur.req
    /\ files[SiteManifest] = Json(ManifestB, "B")
    /\ files[SiteLayout] = LayoutB
    /\ ReqPath = "/zzz" /\ Status = StatusOK

----------------------------------------------------------------------------
(* the blog exported: command line, files, and the export run *)

MaxPages == 3       \* a manifest has at most this many pages

BlogManifest == <<"/", "blog", "smolmanifest.json">>    \* -manifest
BlogOut == <<"/", "blog", "dist">>                      \* -output
BlogLayout == <<"/", "blog", "post.tmpl">>
BlogAbout == <<"/", "blog", "about.md">>
BlogNote == <<"/", "blog", "note.md">>

Page(title, layout, path, md) ==
    [args |-> ("title" :> title), layout |-> layout, path |-> path,
     markdown |-> [path |-> md]]

BlogPages ==
    ("about" :> Page("About", "post", <<"about">>, <<"about.md">>)) @@
    ("home" :> Page("a<b", "page", <<>>, <<>>)) @@
    ("note" :> Page("Note", "post", <<"notes", "n1">>, <<"/", "blog", "note.md">>)) @@
    ("team" :> Page("Team", "post", <<"about">>, <<>>))

\* the manifest's top-level "args"
BlogArgs == {<<>>, ("title" :> "Blog")}

BlogManifests ==
    {[layouts |-> << <<"post.tmpl">> >>, pages |-> [n \in names |-> BlogPages[n]],
      args |-> a] :
        names \in {ns \in SUBSET DOMAIN BlogPages : Cardinality(ns) <= MaxPages},
        a \in BlogArgs}

PostLayout ==
    [kind |-> "layout", bytes |-> <<"post">>, uses |-> {}, top |-> <<>>,
     defs |-> ("post" :> <<Text("<article>"), Arg("title"),
                           Field("RenderedMarkdown"), Text("</article>")>>)]

\* its "post" prints a field executionArgs does not have
PathLayout ==
    [kind |-> "layout", bytes |-> <<"path">>, uses |-> {}, top |-> <<>>,
     defs |-> ("post" :> <<Text("<article>"), Field("Path")>>)]

\* defines no "post" at all
PageLayout ==
    [kind |-> "layout", bytes |-> <<"page">>, uses |-> {}, top |-> <<>>,
     defs |-> ("page" :> <<Text("<p>"), Arg("title")>>)]

BlogContents ==
    (BlogManifest :> {Missing, Garbage} \cup
                     {[kind |-> "json", bytes |-> <<"blog">>, man |-> m] :
                          m \in BlogManifests}) @@
    (BlogLayout :> {Missing, PostLayout, PathLayout, PageLayout}) @@
    (BlogAbout :> {Missing, MdHi}) @@
    (BlogNote :> {Bytes(<<"note">>), MdBad})

\* the output directory before the run: empty, or with a regular file where
\* a page's directory has to go
BlogOutBefore == {<<>>, (<<"/", "blog", "dist", "about">> :> <<"old">>)}

InitExport ==
    /\ files \in [DOMAIN BlogContents -> UNION {BlogContents[p] : p \in DOMAIN BlogContents}]
    /\ \A p \in DOMAIN BlogContents : files[p] \in BlogContents[p]
    /\ pc = "start"
    /\ man = Missing
    /\ tpls = <<>>
    /\ todo = {}
    /\ args = [RenderedMarkdown |-> <<>>, Args |-> <<>>]
    /\ passed = [called |-> FALSE]
    /\ visited = <<>>
    /\ failed = ""
    /\ out \in BlogOutBefore
    /\ ret = Nil
    /\ exitCode = -1
    /\ ServeIdle
    /\ PathsIdle
    /\ MainIdle

\* realMain up to the loop: open and decode the manifest, parse the layouts
LoadManifest ==
    /\ pc = "start"
    /\ LET manPath == Join(BlogManifest, <<>>)
           rd == ReadFile(files, manPath)
           js == Unmarshal(rd.data)
           pl == parseLayouts(manPath, js.man.layouts, files)
       IN  IF rd.err # Nil
           THEN /\ ret' = <<"error opening manifest: ">> \o rd.err
                /\ pc' = "returned"
                /\ UNCHANGED <<man, tpls, todo>>
           ELSE IF js.err # Nil
           THEN /\ ret' = <<"error opening manifest: ">> \o js.err
                /\ pc' = "returned"
                /\ UNCHANGED <<man, tpls, todo>>
           ELSE IF pl.err # Nil
           THEN /\ ret' = <<"error parsing layouts: ">> \o pl.err
                /\ pc' = "returned"
                /\ man' = js.man
                /\ UNCHANGED <<tpls, todo>>
           ELSE /\ man' = js.man
                /\ tpls' = pl.defs
                /\ todo' = DOMAIN js.man.pages
                /\ pc' = "loop"
                /\ ret' = ret
    /\ UNCHANGED <<files, args, passed, visited, failed, out, exitCode,
                   serveVars, pathVars, mainVars>>

\* one iteration of the range loop; the map is ranged over in any order
RenderPage(name) ==
    /\ pc = "loop"
    /\ name \in todo
    /\ LET manPath == Join(BlogManifest, <<>>)
           outDir == Join(BlogOut, <<>>)
           r == renderPage(name, man.pages[name], Dir(manPath), outDir, tpls,
                           files, out)
       IN  /\ args' = r.args
           /\ passed' = IF r.called
                        THEN [called |-> TRUE, name |-> name, args |-> r.args,
                              template |-> r.template]
                        ELSE passed
           /\ out' = r.out
           /\ visited' = Append(visited, name)
           /\ failed' = IF failed = "" /\ r.err # Nil THEN name ELSE failed
           /\ todo' = todo \ {name}
           /\ IF pageAborts(r.err)
              THEN ret' = r.err /\ pc' = "returned"
              ELSE ret' = ret /\ pc' = "loop"
    /\ UNCHANGED <<files, man, tpls, exitCode, serveVars, pathVars, mainVars>>

\* the loop is over: return nil
Return ==
    /\ pc = "loop"
    /\ todo = {}
    /\ ret' = Nil
    /\ pc' = "returned"
    /\ UNCHANGED <<files, man, tpls, todo, args, passed, visited, failed, out,
                   exitCode, serveVars, pathVars, mainVars>>

\* main: print the error and exit 1, or fall off the end
Exit ==
    /\ pc = "returned"
    /\ exitCode' = IF ret # Nil THEN 1 ELSE 0
    /\ pc' = "exited"
    /\ UNCHANGED <<files, man, tpls, todo, args, passed, visited, failed, out,
                   ret, serveVars, pathVars, mainVars>>

NextExport ==
    \/ LoadManifest
    \/ \E name \in DOMAIN BlogPages : RenderPage(name)
    \/ Return
    \/ Exit

SpecExport == InitExport /\ [][NextExport]_vars

----------------------------------------------------------------------------
(* claims about the static export *)

Returned == pc \in {"returned", "exited"}

\* C8: a failure while processing a page makes realMain return an error at
\* once: the failing page is the last one the loop visited, the pages left
\* are never rendered, and the process exits with code 1; a run in which no
\* page failed and nothing before the loop failed returns nil and exits 0.
C8_FailureAbortsRun ==
    /\ failed # "" =>
          /\ Returned
          /\ ret # Nil
          /\ visited[Len(visited)] = failed
          /\ pc = "exited" => exitCode = 1
    /\ (pc = "exited" /\ failed = "" /\ tpls # <<>>) =>
          /\ ret = Nil
          /\ exitCode = 0
          /\ todo = {}

C8_Witness ==
    /\ pc = "exited"
    /\ failed = "note"
    /\ Len(visited) = 2
    /\ todo # {}
    /\ exitCode = 1

\* the rendering of a page: the template "post" executed with the page's args
\* and the conversion of its Markdown file
Rendering(page) ==
    ExecuteTemplate(tpls, "post",
                    [RenderedMarkdown |->
                         IF page.markdown.path = <<>> THEN <<>>
                         ELSE Convert(files[IF IsAbs(page.markdown.path)
                                            THEN page.markdown.path
                                            ELSE <<"/", "blog">> \o page.markdown.path].bytes),
                     Args |-> page.args],
                    <<"/", "blog">>, files).w

\* C9: after a run that returned nil, every page of the manifest has its
\* file <output>/<path>/index.html, holding the rendering of that page.
C9_EveryPageWritten ==
    (pc = "exited" /\ ret = Nil) =>
        \A name \in DOMAIN man.pages :
            LET page == man.pages[name]
                file == BlogOut \o page.path \o <<"index.html">>
            IN  /\ file \in DOMAIN out
                /\ out[file] = Rendering(page)

\* C10: the RenderedMarkdown passed to the template is the conversion of the
\* page's own Markdown file when the page names one, and empty when it names
\* none, whatever pages the loop visited before; Args are the page's args.
C10_MarkdownOfThePage ==
    passed.called =>
        LET page == man.pages[passed.name]
            md == page.markdown.path
        IN  /\ md # <<>> =>
                  passed.args.RenderedMarkdown =
                      Convert(files[IF IsAbs(md) THEN md
                                    ELSE <<"/", "blog">> \o md].bytes)
            /\ md = <<>> => passed.args.RenderedMarkdown = <<>>
            /\ passed.args.Args = page.args

C10_Witness ==
    /\ Len(visited) = 2
    /\ visited[1] = "about"
    /\ passed.called /\ passed.name = "home"
    /\ passed.args.RenderedMarkdown = <<>>
    /\ args.RenderedMarkdown = <<>>

\* the values a page's "layout" takes
LayoutNames == {"post", "page", ""}

----------------------------------------------------------------------------
(* path resolution: every place that opens a file named by the manifest or
   by a template, applied to a manifest path and a path *)

ManifestPaths ==
    {<<"/", "site", "m.json">>, <<"example", "m.json">>, <<"m.json">>}

GivenPaths ==
    {<<"l.tmpl">>, <<"layouts", "l.tmpl">>, <<"..", "shared", "l.tmpl">>,
     <<".", "l.tmpl">>, <<"/", "abs", "l.tmpl">>, <<"/", "l.tmpl">>}

InitPaths ==
    /\ rManPath \in ManifestPaths
    /\ rPath \in GivenPaths
    /\ rSite = "none"
    /\ rResolved = <<>>
    /\ files = <<>>
    /\ ServeIdle
    /\ ExportIdle
    /\ MainIdle

\* static export, a layout of the manifest
ResolveLayoutExport ==
    /\ rSite' = "export layout"
    /\ rResolved' = layoutPathExport(Dir(Join(rManPath, <<>>)), rPath)
    /\ UNCHANGED <<files, rManPath, rPath, serveVars, exportVars, mainVars>>

\* static export, page.markdown.path
ResolveMarkdownExport ==
    /\ rSite' = "export markdown"
    /\ rResolved' = markdownPathExport(Dir(Join(rManPath, <<>>)), rPath)
    /\ UNCHANGED <<files, rManPath, rPath, serveVars, exportVars, mainVars>>

\* serving, a layout of the manifest
ResolveLayoutServe ==
    /\ rSite' = "serve layout"
    /\ rResolved' = layoutPathServe(newHandler(rManPath).manifestDir, rPath)
    /\ UNCHANGED <<files, rManPath, rPath, serveVars, exportVars, mainVars>>

\* serving, route.static_path
ResolveStaticServe ==
    /\ rSite' = "serve static"
    /\ rResolved' = staticPathServe(newHandler(rManPath).manifestDir, rPath)
    /\ UNCHANGED <<files, rManPath, rPath, serveVars, exportVars, mainVars>>

\* serving, the argument of renderMarkdown
ResolveRenderMarkdown ==
    /\ rSite' = "serve renderMarkdown"
    /\ rResolved' = renderMarkdownPath(newHandler(rManPath).manifestDir, rPath)
    /\ UNCHANGED <<files, rManPath, rPath, serveVars, exportVars, mainVars>>

NextPaths ==
    \/ ResolveLayoutExport
    \/ ResolveMarkdownExport
    \/ ResolveLayoutServe
    \/ ResolveStaticServe
    \/ ResolveRenderMarkdown

SpecPaths == InitPaths /\ [][NextPaths]_vars

\* C6: at every place, in both variants, an absolute path is opened as given
\* and a relative path is opened as join(manifestDir, path).
C6_SameResolutionEverywhere ==
    rSite # "none" =>
        rResolved = IF IsAbs(rPath) THEN rPath
                    ELSE Join(Dir(rManPath), rPath)

----------------------------------------------------------------------------
(* realMain of the serving program: the main goroutine, the goroutine that
   waits for ctx.Done() and closes the server, the goroutine that runs the
   server; wget as a child process; the interrupt signal *)

ErrServing == <<"error serving: ">>
ErrWget == <<"error running wget: ">>

InitMain ==
    /\ output \in {"", "build"}
    /\ mpc = "start"
    /\ wpc = "unborn"
    /\ spc = "unborn"
    /\ ctxDone = FALSE
    /\ interrupted = FALSE
    /\ srvClosed = FALSE
    /\ listener = "none"
    /\ crawler = "idle"
    /\ mret = Nil
    /\ mexit = -1
    /\ files = <<>>
    /\ ServeIdle
    /\ ExportIdle
    /\ PathsIdle

\* go func() { <-ctx.Done(); s.Close() }()
GoWatcher ==
    /\ mpc = "start"
    /\ wpc' = "wait"
    /\ mpc' = "goserver"
    /\ UNCHANGED <<output, spc, ctxDone, interrupted, srvClosed, listener,
                   crawler, mret, mexit, files, serveVars, exportVars, pathVars>>

\* go func() { .. s.ListenAndServe() .. }(); then "if output != """
GoServer ==
    /\ mpc = "goserver"
    /\ spc' = "start"
    /\ mpc' = IF output # "" THEN "wget" ELSE "select"
    /\ UNCHANGED <<output, wpc, ctxDone, interrupted, srvClosed, listener,
                   crawler, mret, mexit, files, serveVars, exportVars, pathVars>>

\* cmd.Run() starts wget and waits for it
RunWget ==
    /\ mpc = "wget"
    /\ crawler' = "running"
    /\ mpc' = "wgetwait"
    /\ UNCHANGED <<output, wpc, spc, ctxDone, interrupted, srvClosed, listener,
                   mret, mexit, files, serveVars, exportVars, pathVars>>

\* wget exits and cmd.Run() returns: on an error realMain returns it (the
\* deferred cancel() runs), otherwise it goes on to cancel()
WgetExits(ok) ==
    /\ mpc = "wgetwait"
    /\ crawler' = IF ok THEN "ok" ELSE "failed"
    /\ IF ok
       THEN /\ mpc' = "cancel"
            /\ UNCHANGED <<mret, ctxDone>>
       ELSE /\ mpc' = "returned"
            /\ mret' = ErrWget
            /\ ctxDone' = TRUE
    /\ UNCHANGED <<output, wpc, spc, interrupted, srvClosed, listener, mexit,
                   files, serveVars, exportVars, pathVars>>

\* "Stop the other routines once output has finished": cancel()
Cancel ==
    /\ mpc = "cancel"
    /\ ctxDone' = TRUE
    /\ mpc' = "select"
    /\ UNCHANGED <<output, wpc, spc, interrupted, srvClosed, listener, crawler,
                   mret, mexit, files, serveVars, exportVars, pathVars>>

\* the select finds a case ready: errs when the server goroutine is blocked
\* sending, ctx.Done() when ctx is cancelled; with both ready the runtime
\* picks either
SelectErrs ==
    /\ mpc = "select"
    /\ spc = "sending"
    /\ spc' = "done"
    /\ mret' = ErrServing
    /\ mpc' = "returned"
    /\ ctxDone' = TRUE
    /\ UNCHANGED <<output, wpc, interrupted, srvClosed, listener, crawler,
                   mexit, files, serveVars, exportVars, pathVars>>

SelectDone ==
    /\ mpc = "select"
    /\ ctxDone
    /\ mret' = Nil
    /\ mpc' = "returned"
    /\ UNCHANGED <<output, wpc, spc, ctxDone, interrupted, srvClosed, listener,
                   crawler, mexit, files, serveVars, exportVars, pathVars>>

\* the select finds no case ready: the main goroutine parks on both channels
SelectParks ==
    /\ mpc = "select"
    /\ spc # "sending"
    /\ ~ctxDone
    /\ mpc' = "parked"
    /\ UNCHANGED <<output, wpc, spc, ctxDone, interrupted, srvClosed, listener,
                   crawler, mret, mexit, files, serveVars, exportVars, pathVars>>

\* the interrupt signal cancels the parent context and ctx with it; a main
\* goroutine parked in the select is woken by ctx.Done()
Interrupt ==
    /\ ~interrupted
    /\ mpc \notin {"returned", "exited"}
    /\ interrupted' = TRUE
    /\ ctxDone' = TRUE
    /\ IF mpc = "parked"
       THEN mpc' = "returned" /\ mret' = Nil
       ELSE UNCHANGED <<mpc, mret>>
    /\ UNCHANGED <<output, wpc, spc, srvClosed, listener, crawler, mexit,
                   files, serveVars, exportVars, pathVars>>

\* <-ctx.Done()
WatcherWakes ==
    /\ wpc = "wait"
    /\ ctxDone
    /\ wpc' = "close"
    /\ UNCHANGED <<output, mpc, spc, ctxDone, interrupted, srvClosed, listener,
                   crawler, mret, mexit, files, serveVars, exportVars, pathVars>>

\* s.Close()
WatcherCloses ==
    /\ wpc = "close"
    /\ srvClosed' = TRUE
    /\ listener' = IF listener = "listening" THEN "closed" ELSE listener
    /\ wpc' = "done"
    /\ UNCHANGED <<output, mpc, spc, ctxDone, interrupted, crawler, mret,
                   mexit, files, serveVars, exportVars, pathVars>>

\* s.ListenAndServe(): on a closed server it returns ErrServerClosed at once;
\* otherwise it binds the port and accepts, or fails to bind
ListenAndServe(bound) ==
    /\ spc = "start"
    /\ IF srvClosed \/ ~bound
       THEN spc' = "errored" /\ UNCHANGED listener
       ELSE spc' = "serving" /\ listener' = "listening"
    /\ UNCHANGED <<output, mpc, wpc, ctxDone, interrupted, srvClosed, crawler,
                   mret, mexit, files, serveVars, exportVars, pathVars>>

\* s.Close() makes ListenAndServe return ErrServerClosed
ServeReturns ==
    /\ spc = "serving"
    /\ srvClosed
    /\ spc' = "errored"
    /\ UNCHANGED <<output, mpc, wpc, ctxDone, interrupted, srvClosed, listener,
                   crawler, mret, mexit, files, serveVars, exportVars, pathVars>>

\* errs <- fmt.Errorf("error serving: %s", err) on the unbuffered channel: a
\* main goroutine parked in the select receives it; otherwise the sender
\* blocks
SendErr ==
    /\ spc = "errored"
    /\ IF mpc = "parked"
       THEN /\ spc' = "done"
            /\ mpc' = "returned"
            /\ mret' = ErrServing
            /\ ctxDone' = TRUE
       ELSE /\ spc' = "sending"
            /\ UNCHANGED <<mpc, mret, ctxDone>>
    /\ UNCHANGED <<output, wpc, interrupted, srvClosed, listener, crawler,
                   mexit, files, serveVars, exportVars, pathVars>>

\* main: os.Exit(1) on an error, otherwise the process ends with code 0
MainExit ==
    /\ mpc = "returned"
    /\ mexit' = IF mret # Nil THEN 1 ELSE 0
    /\ mpc' = "exited"
    /\ UNCHANGED <<output, wpc, spc, ctxDone, interrupted, srvClosed, listener,
                   crawler, mret, files, serveVars, exportVars, pathVars>>

NextMain ==
    \/ GoWatcher
    \/ GoServer
    \/ RunWget
    \/ \E ok \in BOOLEAN : WgetExits(ok)
    \/ Cancel
    \/ SelectErrs
    \/ SelectDone
    \/ SelectParks
    \/ Interrupt
    \/ WatcherWakes
    \/ WatcherCloses
    \/ \E bound \in BOOLEAN : ListenAndServe(bound)
    \/ ServeReturns
    \/ SendErr
    \/ MainExit

SpecMain == InitMain /\ [][NextMain]_vars

\* C11: with -output given, wget runs only against a listener that is
\* accepting: the listener has started before wget is invoked, and the
\* server is closed only after wget has finished.
C11_CrawlerSequenced ==
    output # "" =>
        /\ crawler = "running" => listener = "listening"
        /\ srvClosed => crawler \in {"ok", "failed"}

\* C12: once the listener has started, a run that ends because wget exited
\* successfully (-output given) or because of the interrupt signal (no
\* -output) returns nil from realMain and exits with code 0: the "error
\* serving" value is never what realMain returns.
C12_SuccessReturnsNil ==
    (/\ mpc \in {"returned", "exited"}
     /\ listener # "none"
     /\ \/ output # "" /\ crawler = "ok"
        \/ output = "" /\ interrupted)
        => (mret = Nil /\ (mpc = "exited" => mexit = 0))

====
